---- MODULE Spec2Model ----
(***************************************************************************)
(* A model of the BadgerDB buffer manager BufMgr (src/src/buffer.cpp).     *)
(*                                                                         *)
(* The state is the manager's members (bufDescTable, bufPool, hashTable,   *)
(* clockHand), the position of the call in progress (pc, call, count,      *)
(* frameNo) and what the client and the File collaborator observed of the  *)
(* latest call (last, fileCalls).  readPage and allocPage run the          *)
(* replacement scan allocBuf one loop iteration at a time, because the     *)
(* loop need not end; every other public operation is one step.            *)
(*                                                                         *)
(* BufDesc (Set, clear), the hash table (lookup, insert, remove) and File  *)
(* are declared in headers that are not part of src/; they are modelled    *)
(* from sections 4.1, 4.2 and 6 of the specification.                      *)
(***************************************************************************)
EXTENDS Integers, Sequences, FiniteSets

\* Pool size: the constructor argument bufs.
NumBufs == 2
\* Pages of a file are numbered 1..MaxPageNo.
MaxPageNo == 2
\* The pin count of a frame is driven no higher than MaxPin.
MaxPin == 2

VARIABLES bufDescTable, bufPool, hashTable, clockHand,
          pc, call, count, frameNo, advances, last, fileCalls, placed

vars == <<bufDescTable, bufPool, hashTable, clockHand,
          pc, call, count, frameNo, advances, last, fileCalls, placed>>

Frames == 0 .. (NumBufs - 1)
Files == {"A", "B"}
PageIds == 1 .. MaxPageNo
\* The file of an empty descriptor, and the number of an empty page.
NoFile == "none"
NoPage == 0
\* A FrameId that names no frame (a local not yet assigned).
NoFrame == NumBufs + 1
\* A Page* is modelled by the frame whose buffer it addresses; External is
\* any address outside bufPool (caller-owned or uninitialised storage).
External == NumBufs
Handles == Frames \cup {External}
\* The scan's hand advances are counted up to AdvCap and no further.
AdvCap == 2 * NumBufs + 1
\* placed counts the pages readPage misses have placed since construction,
\* as long as no allocPage, flushFile or disposePage was called; after one
\* of those it is Spoiled.
Spoiled == NumBufs + 1

--------------------------------------------------------------------------
\* BufDesc

\* BufDesc::clear(): the empty descriptor (frameNo is kept).
clear(d) ==
  [d EXCEPT !.file = NoFile, !.pageNo = NoPage, !.pinCnt = 0,
            !.dirty = FALSE, !.refbit = FALSE, !.valid = FALSE]

\* BufDesc::Set(file, pageNo): the descriptor of a freshly occupied frame.
Set(d, file, pageNo) ==
  [d EXCEPT !.file = file, !.pageNo = pageNo, !.pinCnt = 1,
            !.dirty = FALSE, !.refbit = TRUE, !.valid = TRUE]

--------------------------------------------------------------------------
\* BufHashTbl: a set of entries [file, pageNo, frameNo]

\* Whether lookup / remove find the key (otherwise HashNotFoundException).
HashHas(ht, file, pageNo) ==
  \E e \in ht : e.file = file /\ e.pageNo = pageNo

\* lookup(file, pageNo, frameNo): the frame of the key's entry.
lookup(ht, file, pageNo) ==
  (CHOOSE e \in ht : e.file = file /\ e.pageNo = pageNo).frameNo

\* insert(file, pageNo, frameNo), for a key that is absent.
insert(ht, file, pageNo, f) ==
  ht \cup {[file |-> file, pageNo |-> pageNo, frameNo |-> f]}

\* remove(file, pageNo), for a key that is present.
remove(ht, file, pageNo) ==
  {e \in ht : ~(e.file = file /\ e.pageNo = pageNo)}

--------------------------------------------------------------------------
\* File: the calls the manager makes on it, in order

FileCall(name, file, pageNo) ==
  [call |-> name, file |-> file, pageNo |-> pageNo]

--------------------------------------------------------------------------
\* Observations

\* The descriptor table the constructor builds.
EmptyTable ==
  [i \in Frames |->
     [frameNo |-> i, file |-> NoFile, pageNo |-> NoPage, pinCnt |-> 0,
      dirty |-> FALSE, refbit |-> FALSE, valid |-> FALSE]]

\* The call in progress: the arguments allocBuf's caller has read so far and
\* the descriptor table when the call started.  The values the caller's Page*
\* and PageId variables hold are drawn where the code first uses them (lines
\* 141 and 180); nothing before depends on them.
NoCall ==
  [op |-> "none", file |-> NoFile, pageNo |-> NoPage, pre |-> EmptyTable]

\* What the caller and the File collaborator see of a call: its arguments,
\* how it ended, the frame it acted on, and the pin count and dirty bit that
\* frame had when the call started.
Outcome(op, file, pageNo, result, f) ==
  [op |-> op, file |-> file, pageNo |-> pageNo, result |-> result,
   frame |-> f, hit |-> FALSE, dirty |-> FALSE, handle |-> External,
   allocated |-> NoPage, pinBefore |-> 0, dirtyBefore |-> FALSE]

Running == Outcome("running", NoFile, NoPage, "none", NoFrame)

--------------------------------------------------------------------------
\* BufMgr::BufMgr

Init ==
  /\ bufDescTable = EmptyTable
  /\ bufPool = [i \in Frames |-> NoPage]
  /\ hashTable = {}
  /\ clockHand = NumBufs - 1
  /\ pc = "idle"
  /\ call = NoCall
  /\ count = 0
  /\ frameNo = NoFrame
  /\ advances = 0
  /\ last = Outcome("BufMgr", NoFile, NoPage, "ok", NoFrame)
  /\ fileCalls = << >>
  /\ placed = 0

--------------------------------------------------------------------------
\* Returning to the caller

Finish(outcome) ==
  /\ pc' = "idle"
  /\ call' = NoCall
  /\ count' = 0
  /\ frameNo' = NoFrame
  /\ last' = outcome

\* An exception leaving allocBuf: readPage lets it through to its caller,
\* allocPage catches every BadgerDbException (line 183) and returns normally.
Thrown(exception) ==
  Finish(Outcome(call.op, call.file, call.pageNo,
                 IF call.op = "allocPage" THEN "ok" ELSE exception, NoFrame))

--------------------------------------------------------------------------
\* BufMgr::advanceClock

advanceClockTwo(hand) == (hand + 2) % NumBufs
advanceClock(hand) == (hand + 1) % NumBufs

--------------------------------------------------------------------------
\* BufMgr::allocBuf, one iteration of its loop; the code after the loop
\* belongs to the iteration that leaves it.

\* Line 56: the frame under the hand is free.
IsFreeAlways(d) == TRUE
IsFree(d) == ~d.valid

\* Line 61: "refbit == false;" compares and stores nothing.
RefbitCleared(d) == [d EXCEPT !.refbit = FALSE]
RefbitSeen(d) == d

\* Line 64: the frame under the hand is the victim.
IsVictim(d) == d.pinCnt = 0

allocBuf ==
  /\ pc = "allocBuf"
  /\ LET hand == advanceClock(clockHand)
         d == bufDescTable[hand]
         back == IF call.op = "readPage" THEN "readPage_141"
                                         ELSE "allocPage_177"
     IN
     /\ clockHand' = hand
     /\ advances' = IF advances < AdvCap THEN advances + 1 ELSE advances
     /\ UNCHANGED <<bufPool, placed>>
     /\ IF IsFree(d) THEN
          \* lines 56-58
          /\ frameNo' = d.frameNo
          /\ pc' = back
          /\ UNCHANGED <<bufDescTable, hashTable, call, count, last, fileCalls>>
        ELSE IF d.refbit THEN
          \* lines 60-62
          /\ bufDescTable' = [bufDescTable EXCEPT ![hand] = RefbitSeen(d)]
          /\ UNCHANGED <<hashTable, pc, call, count, frameNo, last, fileCalls>>
        ELSE IF IsVictim(d) THEN
          \* lines 64-65, then 72-86
          /\ fileCalls' = IF d.dirty
                          THEN Append(fileCalls,
                                      FileCall("writePage", d.file, bufPool[hand]))
                          ELSE fileCalls
          /\ IF HashHas(hashTable, d.file, d.pageNo) THEN
               /\ hashTable' = remove(hashTable, d.file, d.pageNo)
               /\ bufDescTable' = [bufDescTable EXCEPT ![hand] = clear(d)]
               /\ frameNo' = d.frameNo
               /\ pc' = back
               /\ UNCHANGED <<call, count, last>>
             ELSE
               /\ Thrown("HashNotFound")
               /\ UNCHANGED <<bufDescTable, hashTable>>
        ELSE IF count + 1 > NumBufs THEN
          \* line 68, the loop ends at line 54, lines 72-73
          /\ Thrown("BufferExceeded")
          /\ UNCHANGED <<bufDescTable, hashTable, fileCalls>>
        ELSE
          \* line 68
          /\ count' = count + 1
          /\ UNCHANGED <<bufDescTable, hashTable, pc, call, frameNo, last,
                         fileCalls>>

--------------------------------------------------------------------------
\* BufMgr::readPage

\* Lines 135-136: a hit pins the frame.
PinOnce(d) == [d EXCEPT !.refbit = TRUE, !.pinCnt = 1]
Pin(d) == [d EXCEPT !.refbit = TRUE, !.pinCnt = @ + 1]

\* page is the value of the caller's Page* variable, which a hit leaves as
\* it is.
readPage(file, pageNo, page) ==
  /\ pc = "idle"
  /\ fileCalls' = << >>
  /\ advances' = 0
  /\ placed' = placed
  /\ IF HashHas(hashTable, file, pageNo) THEN
       \* lines 134-136
       LET f == lookup(hashTable, file, pageNo) IN
       /\ bufDescTable[f].pinCnt < MaxPin
       /\ bufDescTable' = [bufDescTable EXCEPT ![f] = Pin(@)]
       /\ Finish([Outcome("readPage", file, pageNo, "ok", f) EXCEPT
                    !.hit = TRUE, !.handle = page,
                    !.pinBefore = bufDescTable[f].pinCnt,
                    !.dirtyBefore = bufDescTable[f].dirty])
       /\ UNCHANGED <<bufPool, hashTable, clockHand>>
     ELSE
       \* line 139: HashNotFoundException, allocBuf is entered
       /\ pc' = "allocBuf"
       /\ call' = [op |-> "readPage", file |-> file, pageNo |-> pageNo,
                   pre |-> bufDescTable]
       /\ count' = 0
       /\ last' = Running
       /\ UNCHANGED <<bufDescTable, bufPool, hashTable, clockHand, frameNo>>

\* Line 141: "*page = file.readPage(pageNo)" stores the page where the
\* caller's pointer points, which is the buffer of a pool frame only if the
\* caller passed one; f is the frame allocBuf returned.
StoreRead(pool, page, f, pageNo) ==
  IF page \in Frames THEN [pool EXCEPT ![page] = pageNo] ELSE pool

\* Lines 141-143, allocBuf having returned frameNo; page is the value of the
\* caller's Page* variable.
readPage_141(page) ==
  /\ pc = "readPage_141"
  /\ fileCalls' = Append(fileCalls, FileCall("readPage", call.file, call.pageNo))
  /\ bufPool' = StoreRead(bufPool, page, frameNo, call.pageNo)
  /\ placed' = IF placed < NumBufs THEN placed + 1 ELSE Spoiled
  /\ UNCHANGED <<clockHand, advances>>
  /\ IF HashHas(hashTable, call.file, call.pageNo) THEN
       \* insert throws HashAlreadyPresentException
       /\ Finish([Outcome("readPage", call.file, call.pageNo,
                          "HashAlreadyPresent", frameNo) EXCEPT
                    !.handle = page])
       /\ UNCHANGED <<bufDescTable, hashTable>>
     ELSE
       /\ hashTable' = insert(hashTable, call.file, call.pageNo, frameNo)
       /\ bufDescTable' = [bufDescTable EXCEPT
                             ![frameNo] = Set(@, call.file, call.pageNo)]
       /\ Finish([Outcome("readPage", call.file, call.pageNo, "ok", frameNo)
                    EXCEPT !.handle = page])

--------------------------------------------------------------------------
\* BufMgr::unPinPage

\* Line 155: the page has no pin to release.
NotPinnedNever(d) == FALSE
NotPinned(d) == d.pinCnt = 0

\* Lines 160-164.
UnpinAssign(d, dirty) == [d EXCEPT !.pinCnt = @ - 1, !.dirty = dirty]
Unpin(d, dirty) ==
  [d EXCEPT !.pinCnt = @ - 1, !.dirty = IF dirty THEN TRUE ELSE @]

unPinPage(file, pageNo, dirty) ==
  /\ pc = "idle"
  /\ fileCalls' = << >>
  /\ advances' = 0
  /\ UNCHANGED <<bufPool, hashTable, clockHand, placed>>
  /\ IF HashHas(hashTable, file, pageNo) THEN
       LET f == lookup(hashTable, file, pageNo)
           seen == [Outcome("unPinPage", file, pageNo, "ok", f) EXCEPT
                      !.hit = TRUE, !.dirty = dirty,
                      !.pinBefore = bufDescTable[f].pinCnt,
                      !.dirtyBefore = bufDescTable[f].dirty]
       IN
       IF NotPinned(bufDescTable[f]) THEN
         \* line 157
         /\ bufDescTable' = bufDescTable
         /\ Finish([seen EXCEPT !.result = "PageNotPinned"])
       ELSE
         \* lines 160-164
         /\ bufDescTable' = [bufDescTable EXCEPT ![f] = Unpin(@, dirty)]
         /\ Finish(seen)
     ELSE
       \* lines 167-169: the exception is logged
       /\ bufDescTable' = bufDescTable
       /\ Finish([Outcome("unPinPage", file, pageNo, "ok", NoFrame) EXCEPT
                    !.dirty = dirty])

--------------------------------------------------------------------------
\* BufMgr::allocPage

allocPage(file) ==
  /\ pc = "idle"
  /\ fileCalls' = << >>
  /\ advances' = 0
  /\ pc' = "allocBuf"
  /\ call' = [op |-> "allocPage", file |-> file, pageNo |-> NoPage,
              pre |-> bufDescTable]
  /\ count' = 0
  /\ last' = Running
  /\ placed' = Spoiled
  /\ UNCHANGED <<bufDescTable, bufPool, hashTable, clockHand, frameNo>>

\* Lines 180-181: the key of the new page is the caller's pageNo argument,
\* which allocPage never assigns; allocated is the number File gave the page.
NewKey(pageNo, allocated) == pageNo

\* Lines 177-181, allocBuf having returned frameNo; pageNo is the value of
\* the caller's PageId variable, allocated the number of the page
\* File.allocatePage returns.
allocPage_177(pageNo, allocated) ==
  /\ pc = "allocPage_177"
  /\ fileCalls' = Append(fileCalls, FileCall("allocatePage", call.file, allocated))
  /\ bufPool' = [bufPool EXCEPT ![frameNo] = allocated]
  /\ UNCHANGED <<clockHand, advances, placed>>
  /\ LET key == NewKey(pageNo, allocated)
         seen == [Outcome("allocPage", call.file, pageNo, "ok", frameNo) EXCEPT
                    !.handle = frameNo, !.allocated = allocated]
     IN
     IF HashHas(hashTable, call.file, key) THEN
       \* insert throws HashAlreadyPresentException, caught at line 183
       /\ UNCHANGED <<bufDescTable, hashTable>>
       /\ Finish(seen)
     ELSE
       /\ hashTable' = insert(hashTable, call.file, key, frameNo)
       /\ bufDescTable' = [bufDescTable EXCEPT ![frameNo] = Set(@, call.file, key)]
       /\ Finish(seen)

--------------------------------------------------------------------------
\* BufMgr::flushFile

\* Line 212: the index after the frame's entry is removed.
FlushKeep(ht, file, pageNo) == ht
FlushRemove(ht, file, pageNo) == remove(ht, file, pageNo)

\* Line 201: the frame is pinned.
IsPinnedNever(d) == FALSE
IsPinned(d) == d.pinCnt # 0

\* Line 206: the frame is written back.
MustWriteClean(d) == ~d.dirty
MustWrite(d) == d.dirty # FALSE

\* The loop of lines 190-215 from frame i on: the descriptors, the index and
\* the File calls it leaves, how it ends and at which frame.
RECURSIVE flushFrom(_, _, _, _, _, _)
flushFrom(i, file, desc, ht, pool, calls) ==
  IF i = NumBufs THEN
    [desc |-> desc, ht |-> ht, calls |-> calls, result |-> "ok", at |-> NoFrame]
  ELSE IF desc[i].file # file THEN
    flushFrom(i + 1, file, desc, ht, pool, calls)
  ELSE IF ~desc[i].valid THEN
    [desc |-> desc, ht |-> ht, calls |-> calls, result |-> "BadBuffer", at |-> i]
  ELSE IF IsPinned(desc[i]) THEN
    [desc |-> desc, ht |-> ht, calls |-> calls, result |-> "PagePinned", at |-> i]
  ELSE
    LET written == IF MustWrite(desc[i])
                   THEN Append(calls, FileCall("writePage", desc[i].file, pool[i]))
                   ELSE calls
    IN
    IF ~HashHas(ht, file, desc[i].pageNo) THEN
      [desc |-> [desc EXCEPT ![i].dirty = FALSE], ht |-> ht, calls |-> written,
       result |-> "HashNotFound", at |-> i]
    ELSE
      flushFrom(i + 1, file, [desc EXCEPT ![i] = clear(@)],
                FlushRemove(ht, file, desc[i].pageNo), pool, written)

flushFile(file) ==
  /\ pc = "idle"
  /\ advances' = 0
  /\ placed' = Spoiled
  /\ LET r == flushFrom(0, file, bufDescTable, hashTable, bufPool, << >>) IN
     /\ bufDescTable' = r.desc
     /\ hashTable' = r.ht
     /\ fileCalls' = r.calls
     /\ Finish(Outcome("flushFile", file, NoPage, r.result, r.at))
  /\ UNCHANGED <<bufPool, clockHand>>

--------------------------------------------------------------------------
\* BufMgr::disposePage

\* Line 223: the descriptor of the disposed page is cleared.
DisposedKeepPin(d) == [clear(d) EXCEPT !.pinCnt = d.pinCnt]
DisposedKeepDirty(d) == [clear(d) EXCEPT !.dirty = d.dirty]
Disposed(d) == clear(d)

\* Line 224: the entry of the disposed page is removed.
DisposeKeep(ht, file, PageNo) == ht
DisposeRemove(ht, file, PageNo) == remove(ht, file, PageNo)

disposePage(file, PageNo) ==
  /\ pc = "idle"
  /\ advances' = 0
  /\ placed' = Spoiled
  /\ fileCalls' = << FileCall("deletePage", file, PageNo) >>
  /\ UNCHANGED <<bufPool, clockHand>>
  /\ IF HashHas(hashTable, file, PageNo) THEN
       LET toDispose == lookup(hashTable, file, PageNo) IN
       /\ bufDescTable' = [bufDescTable EXCEPT ![toDispose] = Disposed(@)]
       /\ hashTable' = DisposeRemove(hashTable, file, PageNo)
       /\ Finish([Outcome("disposePage", file, PageNo, "ok", toDispose) EXCEPT
                    !.hit = TRUE,
                    !.pinBefore = bufDescTable[toDispose].pinCnt,
                    !.dirtyBefore = bufDescTable[toDispose].dirty])
     ELSE
       /\ UNCHANGED <<bufDescTable, hashTable>>
       /\ Finish(Outcome("disposePage", file, PageNo, "ok", NoFrame))

--------------------------------------------------------------------------
\* The manager is used by one thread: a public operation starts only when no
\* call is in progress, and a call in progress runs on.

Next ==
  \/ \E file \in Files, pageNo \in PageIds, page \in Handles :
       readPage(file, pageNo, page)
  \/ allocBuf
  \/ \E page \in Handles : readPage_141(page)
  \/ \E file \in Files, pageNo \in PageIds, dirty \in BOOLEAN :
       unPinPage(file, pageNo, dirty)
  \/ \E file \in Files : allocPage(file)
  \/ \E pageNo \in PageIds, allocated \in PageIds :
       allocPage_177(pageNo, allocated)
  \/ \E file \in Files : flushFile(file)
  \/ \E file \in Files, PageNo \in PageIds : disposePage(file, PageNo)

Spec == Init /\ [][Next]_vars

\* A call in progress is not abandoned: the thread goes on executing it.
FairSpec ==
  /\ Spec
  /\ WF_vars(allocBuf)
  /\ WF_vars(\E page \in Handles : readPage_141(page))
  /\ WF_vars(\E pageNo \in PageIds, allocated \in PageIds :
               allocPage_177(pageNo, allocated))

--------------------------------------------------------------------------
\* Vocabulary of the properties

Idle == pc = "idle"

\* The index maps the key to frame f.
Maps(ht, file, pageNo, f) ==
  [file |-> file, pageNo |-> pageNo, frameNo |-> f] \in ht

\* A state in which a call that needs a new frame finds every frame valid.
PoolFull == \A f \in Frames : bufDescTable[f].valid
AllPinned == \A f \in Frames : bufDescTable[f].pinCnt > 0
Scanning == pc = "allocBuf"

\* The step that returns from a call of the named operation.
Returns(op) == pc' = "idle" /\ last'.op = op

--------------------------------------------------------------------------
\* Frame f, pinned in the descriptor table before, is untouched by the step.
PinnedKept(before, f) ==
  /\ bufDescTable'[f].valid
  /\ bufDescTable'[f].file = before[f].file
  /\ bufDescTable'[f].pageNo = before[f].pageNo
  /\ Maps(hashTable', before[f].file, before[f].pageNo, f)
  /\ IF last'.hit /\ last'.frame = f
     THEN bufDescTable'[f].pinCnt > before[f].pinCnt
     ELSE bufDescTable'[f].pinCnt = before[f].pinCnt

\* C1. Pin-safety of replacement: every frame that is pinned when a readPage
\* or allocPage call starts is, when the call ends, still valid, holds the
\* same (file, pageNo), still has its index entry and has the same pinCnt;
\* only the frame a readPage hit lands on has a larger pinCnt.  Stated of
\* every step of such a call, so that a call that never ends is covered.
C1_PinSafety ==
  [][ (pc' # "idle" \/ Returns("readPage") \/ Returns("allocPage")) =>
        LET before == IF Idle THEN bufDescTable ELSE call.pre IN
        \A f \in Frames : before[f].pinCnt > 0 => PinnedKept(before, f)
    ]_vars

\* A readPage or allocPage call has returned a frame after its scan passed
\* over a frame that is still pinned.
C1_Witness ==
  /\ Idle
  /\ last.op \in {"readPage", "allocPage"}
  /\ last.result = "ok"
  /\ last.frame \in Frames
  /\ ~last.hit
  /\ advances > 1
  /\ \E g \in Frames : g # last.frame /\ bufDescTable[g].pinCnt > 0

--------------------------------------------------------------------------
\* C2. Index / frame-table coherence between public operations: the index
\* holds (file, pageNo) -> f exactly when descriptor f is valid with that
\* file and pageNo; no entry maps to an invalid frame and no two entries map
\* to the same frame.
C2_Coherence ==
  Idle =>
    /\ \A e \in hashTable :
         /\ e.frameNo \in Frames
         /\ bufDescTable[e.frameNo].valid
         /\ bufDescTable[e.frameNo].file = e.file
         /\ bufDescTable[e.frameNo].pageNo = e.pageNo
    /\ \A f \in Frames :
         bufDescTable[f].valid =>
           Maps(hashTable, bufDescTable[f].file, bufDescTable[f].pageNo, f)
    /\ \A e1, e2 \in hashTable : e1.frameNo = e2.frameNo => e1 = e2

\* A flushFile that ended in PagePinned after it had emptied a frame, with
\* another page still resident.
C2_Witness ==
  /\ Idle
  /\ last.op = "flushFile"
  /\ last.result = "PagePinned"
  /\ hashTable # {}
  /\ \E f \in Frames : f < last.frame /\ ~bufDescTable[f].valid

--------------------------------------------------------------------------
\* Every frame is valid, some frame is unpinned and every unpinned frame is
\* dirty: a call that needs a frame can only reuse a dirty one.
OnlyDirtyVictims ==
  /\ PoolFull
  /\ \E f \in Frames : bufDescTable[f].pinCnt = 0
  /\ \A f \in Frames : bufDescTable[f].pinCnt = 0 => bufDescTable[f].dirty

\* The call has returned having issued one writePage and then its readPage
\* or allocatePage.
WroteBack ==
  /\ Idle
  /\ last.result = "ok"
  /\ Len(fileCalls) = 2
  /\ fileCalls[1].call = "writePage"
  /\ fileCalls[2].call \in {"readPage", "allocatePage"}

--------------------------------------------------------------------------
\* C4. When every frame is valid and pinned, a request that needs a new
\* frame signals BufferExceeded to its caller.
C4_BufferExceeded ==
  (Scanning /\ PoolFull /\ AllPinned) ~>
    (Idle /\ last.op \in {"readPage", "allocPage"}
          /\ last.result = "BufferExceeded")

--------------------------------------------------------------------------
\* C5. With every frame valid, a readPage of a page that is not resident
\* completes successfully when at least one frame has pinCnt = 0: it returns
\* with the new page loaded into a frame.
C5_MissSucceedsIfUnpinned ==
  (Scanning /\ call.op = "readPage" /\ PoolFull /\ ~AllPinned) ~>
    (Idle /\ last.op = "readPage" /\ last.result = "ok"
          /\ last.frame \in Frames
          /\ Maps(hashTable, last.file, last.pageNo, last.frame))

--------------------------------------------------------------------------
\* C6. On every successful return of readPage the handle given to the caller
\* designates the buffer of the frame the index maps (file, pageNo) to, and
\* that frame has pinCnt >= 1.
C6_HandleIsFrame ==
  (Idle /\ last.op = "readPage" /\ last.result = "ok") =>
    /\ HashHas(hashTable, last.file, last.pageNo)
    /\ last.handle = lookup(hashTable, last.file, last.pageNo)
    /\ last.handle \in Frames
    /\ bufDescTable[last.frame].pinCnt >= 1

--------------------------------------------------------------------------
\* C7. After a readPage miss that obtains frame f, the buffer of f holds the
\* page read (its page number is desc[f].pageNo), desc[f] is valid with file
\* and pageNo set, pinCnt = 1, refbit = true, dirty = false, and the index
\* maps (file, pageNo) to f.
C7_MissLoadsFrame ==
  (Idle /\ last.op = "readPage" /\ last.result = "ok" /\ ~last.hit) =>
    LET f == last.frame IN
    /\ bufPool[f] = bufDescTable[f].pageNo
    /\ bufDescTable[f].valid
    /\ bufDescTable[f].file = last.file
    /\ bufDescTable[f].pageNo = last.pageNo
    /\ bufDescTable[f].pinCnt = 1
    /\ bufDescTable[f].refbit
    /\ ~bufDescTable[f].dirty
    /\ Maps(hashTable, last.file, last.pageNo, f)

--------------------------------------------------------------------------
\* C8. allocPage returns the page number File.allocatePage assigned, copies
\* the allocated page into the buffer of the obtained frame f and leaves
\* desc[f] valid with that page number, pinCnt = 1 and an index entry
\* (file, that number) -> f.
C8_AllocUsesAllocatedNumber ==
  (Idle /\ last.op = "allocPage" /\ last.result = "ok"
        /\ last.frame \in Frames) =>
    LET f == last.frame IN
    /\ last.pageNo = last.allocated
    /\ bufPool[f] = last.allocated
    /\ bufDescTable[f].valid
    /\ bufDescTable[f].file = last.file
    /\ bufDescTable[f].pageNo = last.allocated
    /\ bufDescTable[f].pinCnt = 1
    /\ Maps(hashTable, last.file, last.allocated, f)

--------------------------------------------------------------------------
\* The step that enters readPage, and the key it is called with.
StartsRead ==
  Idle /\ (Returns("readPage") \/ (pc' = "allocBuf" /\ call'.op = "readPage"))

ReadKey == IF pc' = "idle" THEN last' ELSE call'

\* C9. readPage of a page resident in frame f is a pure hit: no File call,
\* no replacement scan (clockHand unchanged), index and every other
\* descriptor unchanged, and desc[f] changed only by refbit = true and
\* pinCnt + 1.
C9_PureHit ==
  [][ (StartsRead /\ HashHas(hashTable, ReadKey.file, ReadKey.pageNo)) =>
        LET f == lookup(hashTable, ReadKey.file, ReadKey.pageNo) IN
        /\ Returns("readPage")
        /\ last'.result = "ok"
        /\ fileCalls' = << >>
        /\ clockHand' = clockHand
        /\ hashTable' = hashTable
        /\ bufDescTable' =
             [bufDescTable EXCEPT
                ![f] = [@ EXCEPT !.refbit = TRUE, !.pinCnt = @ + 1]]
    ]_vars

\* A hit on a dirty frame that was already pinned.
C9_Witness ==
  /\ Idle
  /\ last.op = "readPage"
  /\ last.hit
  /\ last.pinBefore = 1
  /\ bufDescTable[last.frame].pinCnt = 2
  /\ bufDescTable[last.frame].dirty
  /\ \E g \in Frames : g # last.frame /\ bufDescTable[g].valid

--------------------------------------------------------------------------
\* C10. unPinPage(file, pageNo, dirty) on a resident page with pinCnt > 0
\* decrements that frame's pinCnt by one and changes nothing else except the
\* dirty bit, which becomes (old dirty OR dirty); so readPage followed by
\* unPinPage(dirty = false) on a resident page restores the pinCnt the frame
\* had before the pair.
C10_UnPin ==
  [][ (Idle /\ Returns("unPinPage")
            /\ HashHas(hashTable, last'.file, last'.pageNo)
            /\ bufDescTable[lookup(hashTable, last'.file, last'.pageNo)].pinCnt > 0)
      =>
        LET f == lookup(hashTable, last'.file, last'.pageNo) IN
        /\ last'.result = "ok"
        /\ bufDescTable' =
             [bufDescTable EXCEPT
                ![f] = [@ EXCEPT !.pinCnt = @ - 1,
                                 !.dirty = (@ \/ last'.dirty)]]
        /\ hashTable' = hashTable
        /\ clockHand' = clockHand
        /\ bufPool' = bufPool
        /\ fileCalls' = << >>
        /\ (last.op = "readPage" /\ last.hit /\ last.frame = f /\ ~last'.dirty)
             => bufDescTable'[f].pinCnt = last.pinBefore
    ]_vars

\* An unPinPage(dirty = false) of a dirty page, right after a hit on it.
C10_Witness ==
  /\ Idle
  /\ last.op = "unPinPage"
  /\ last.result = "ok"
  /\ last.frame \in Frames
  /\ ~last.dirty
  /\ last.dirtyBefore
  /\ last.pinBefore = 2
  /\ bufDescTable[last.frame].dirty
  /\ bufDescTable[last.frame].pinCnt = 1

--------------------------------------------------------------------------
\* C11. unPinPage changes no state in its two non-effect cases: for a key
\* that is not in the index it returns normally, for a resident page with
\* pinCnt = 0 it signals PageNotPinned; in both the descriptors (pinCnt, and
\* dirty even when the dirty argument is true), the index and clockHand are
\* unchanged.
C11_UnPinNoEffect ==
  [][ (Idle /\ Returns("unPinPage")) =>
        LET file == last'.file
            pageNo == last'.pageNo
            same == /\ bufDescTable' = bufDescTable
                    /\ hashTable' = hashTable
                    /\ clockHand' = clockHand
                    /\ bufPool' = bufPool
                    /\ \A f \in Frames : bufDescTable'[f].pinCnt >= 0
        IN
        /\ ~HashHas(hashTable, file, pageNo) => (last'.result = "ok" /\ same)
        /\ (/\ HashHas(hashTable, file, pageNo)
            /\ bufDescTable[lookup(hashTable, file, pageNo)].pinCnt = 0)
             => (last'.result = "PageNotPinned" /\ same)
    ]_vars

\* unPinPage(dirty = true) of a resident clean page that has no pin was
\* refused.
C11_Witness ==
  /\ Idle
  /\ last.op = "unPinPage"
  /\ last.result = "PageNotPinned"
  /\ last.dirty
  /\ bufDescTable[last.frame].valid
  /\ bufDescTable[last.frame].pinCnt = 0
  /\ ~bufDescTable[last.frame].dirty

--------------------------------------------------------------------------
\* The valid frames of the file, and the writePage calls a flush of frames
\* i, i+1, ... of that file makes for those that are dirty.
FramesOf(file) ==
  {f \in Frames : bufDescTable[f].valid /\ bufDescTable[f].file = file}

RECURSIVE DirtyWrites(_, _)
DirtyWrites(i, file) ==
  IF i = NumBufs THEN << >>
  ELSE IF i \in FramesOf(file) /\ bufDescTable[i].dirty
       THEN << FileCall("writePage", file, bufPool[i]) >> \o DirtyWrites(i + 1, file)
       ELSE DirtyWrites(i + 1, file)

\* Frame f and the entries that map to it are untouched by the step.
FrameKept(f) ==
  /\ bufDescTable'[f] = bufDescTable[f]
  /\ {e \in hashTable' : e.frameNo = f} = {e \in hashTable : e.frameNo = f}

\* Frame f is empty after the step and no entry maps to it.
FrameEmptied(f) ==
  /\ ~bufDescTable'[f].valid
  /\ \A e \in hashTable' : e.frameNo # f

\* C12. For a file none of whose resident frames is pinned, flushFile(file)
\* completes without error, issues writePage exactly once for each frame of
\* the file that was dirty and for no other frame, and leaves every frame
\* that held a page of the file invalid and out of the index, while the
\* frames of other files keep descriptor and index entry.
C12_FlushUnpinnedFile ==
  [][ (Idle /\ Returns("flushFile")
            /\ \A f \in FramesOf(last'.file) : bufDescTable[f].pinCnt = 0) =>
        /\ last'.result = "ok"
        /\ fileCalls' = DirtyWrites(0, last'.file)
        /\ \A f \in Frames :
             IF f \in FramesOf(last'.file) THEN FrameEmptied(f)
                                           ELSE FrameKept(f)
    ]_vars

\* A flushFile that wrote exactly one dirty frame while a page of another
\* file stays resident.
C12_Witness ==
  /\ Idle
  /\ last.op = "flushFile"
  /\ last.result = "ok"
  /\ Len(fileCalls) = 1
  /\ \E f \in Frames : bufDescTable[f].valid /\ bufDescTable[f].file # last.file

--------------------------------------------------------------------------
\* The first frame of the file, in FrameId order, that is pinned.
FirstPinned(file) ==
  CHOOSE f \in FramesOf(file) :
    /\ bufDescTable[f].pinCnt > 0
    /\ \A g \in FramesOf(file) : bufDescTable[g].pinCnt > 0 => f <= g

\* C13. flushFile(file) signals PagePinned whenever some valid frame of the
\* file is pinned; it stops at the first such frame f in FrameId order: f and
\* every frame after it keep descriptor and index entry, the frames of the
\* file before f have been flushed and emptied, frames of other files are
\* unchanged.
C13_FlushPinnedFile ==
  [][ (Idle /\ Returns("flushFile")
            /\ \E f \in FramesOf(last'.file) : bufDescTable[f].pinCnt > 0) =>
        LET f == FirstPinned(last'.file) IN
        /\ last'.result = "PagePinned"
        /\ last'.frame = f
        /\ \A g \in Frames :
             IF g < f /\ g \in FramesOf(last'.file) THEN FrameEmptied(g)
                                                     ELSE FrameKept(g)
        /\ bufDescTable'[f].pinCnt > 0
        /\ fileCalls' = SubSeq(DirtyWrites(0, last'.file), 1, Len(fileCalls'))
    ]_vars

\* A flushFile that wrote and emptied a dirty frame and then stopped at a
\* pinned dirty frame of the same file.
C13_Witness ==
  /\ Idle
  /\ last.op = "flushFile"
  /\ last.result = "PagePinned"
  /\ Len(fileCalls) = 1
  /\ bufDescTable[last.frame].dirty
  /\ bufDescTable[last.frame].file = last.file
  /\ \E g \in Frames : g < last.frame /\ ~bufDescTable[g].valid

--------------------------------------------------------------------------
\* C14. disposePage(file, p) is idempotent: every call succeeds, resident or
\* not, and calls File.deletePage(p) exactly once; afterwards the index has
\* no entry for (file, p) and no valid descriptor holds (file, p); a second
\* call leaves the manager's state as the first left it.
C14_DisposeIdempotent ==
  [][ (Idle /\ Returns("disposePage")) =>
        LET file == last'.file
            p == last'.pageNo
        IN
        /\ last'.result = "ok"
        /\ fileCalls' = << FileCall("deletePage", file, p) >>
        /\ ~HashHas(hashTable', file, p)
        /\ \A f \in Frames :
             ~(/\ bufDescTable'[f].valid
               /\ bufDescTable'[f].file = file
               /\ bufDescTable'[f].pageNo = p)
        /\ (last.op = "disposePage" /\ last.file = file /\ last.pageNo = p)
             => /\ bufDescTable' = bufDescTable
                /\ hashTable' = hashTable
                /\ bufPool' = bufPool
                /\ clockHand' = clockHand
    ]_vars

\* A disposePage of a page that is not resident, one frame of the pool being
\* empty and another occupied.
C14_Witness ==
  /\ Idle
  /\ last.op = "disposePage"
  /\ last.result = "ok"
  /\ ~last.hit
  /\ hashTable # {}
  /\ \E f \in Frames : ~bufDescTable[f].valid

--------------------------------------------------------------------------
\* C15. In every reachable state every descriptor has pinCnt >= 0, and every
\* descriptor that is not valid has pinCnt = 0 and dirty = false.
C15_PinDirtyImplyValid ==
  \A f \in Frames :
    /\ bufDescTable[f].pinCnt >= 0
    /\ ~bufDescTable[f].valid =>
         (bufDescTable[f].pinCnt = 0 /\ ~bufDescTable[f].dirty)

\* A pinned dirty page was disposed of while another page stays pinned.
C15_Witness ==
  /\ Idle
  /\ last.op = "disposePage"
  /\ last.hit
  /\ last.pinBefore = MaxPin
  /\ last.dirtyBefore
  /\ ~bufDescTable[last.frame].valid
  /\ \E g \in Frames : bufDescTable[g].pinCnt > 0

--------------------------------------------------------------------------
\* C16. Every invocation of the replacement scan ends, with a frame or with
\* BufferExceeded, after at most 2N advances of the clock hand: the number
\* of advances of a scan never exceeds 2 * NumBufs.
C16_ScanBounded == advances <= 2 * NumBufs

--------------------------------------------------------------------------
\* C17. Second chance: when the scan inspects a valid frame whose refbit is
\* true it does not evict it but sets its refbit to false and moves on.
C17_SecondChance ==
  [][ (Scanning
         /\ bufDescTable[(clockHand + 1) % NumBufs].valid
         /\ bufDescTable[(clockHand + 1) % NumBufs].refbit) =>
        /\ bufDescTable'[(clockHand + 1) % NumBufs].valid
        /\ ~bufDescTable'[(clockHand + 1) % NumBufs].refbit
    ]_vars

--------------------------------------------------------------------------
\* The hand is a FrameId, it is NumBufs - 1 after construction, and the i-th
\* page placed by readPage on a fresh manager is in frame i - 1.
HandAndPlacement ==
  /\ clockHand \in Frames
  /\ last.op = "BufMgr" => clockHand = NumBufs - 1
  /\ (Idle /\ last.op = "readPage" /\ last.result = "ok" /\ ~last.hit
           /\ placed \in 1 .. NumBufs) =>
       /\ last.frame = placed - 1
       /\ Maps(hashTable, last.file, last.pageNo, placed - 1)

\* Only the scan moves the hand, one frame per inspection in the order
\* (hand + 1) mod N, and an invalid frame is returned as soon as it is
\* inspected, with no descriptor or index entry changed.
ScanOrder ==
  IF Scanning
  THEN /\ clockHand' = (clockHand + 1) % NumBufs
       /\ ~bufDescTable[clockHand'].valid =>
            /\ pc' \in {"readPage_141", "allocPage_177"}
            /\ frameNo' = clockHand'
            /\ bufDescTable' = bufDescTable
            /\ hashTable' = hashTable
  ELSE clockHand' = clockHand

\* C18. The clock hand starts at N-1 and the scan inspects frames one at a
\* time in the order (hand+1) mod N, (hand+2) mod N, ..., returning an
\* invalid frame as soon as it is inspected without changing any descriptor
\* or index entry; on a fresh manager the i-th readPage of a distinct page
\* is placed in frame i-1, and clockHand is in [0, N) in every state.
C18_ClockOrder == []HandAndPlacement /\ [][ScanOrder]_vars

\* The N-th page read on a fresh manager went to the last frame.
C18_Witness ==
  /\ Idle
  /\ last.op = "readPage"
  /\ ~last.hit
  /\ placed = NumBufs
  /\ last.frame = NumBufs - 1
  /\ clockHand = NumBufs - 1

--------------------------------------------------------------------------
\* Every valid descriptor has its refbit set.
ValidHasRefbit ==
  \A f \in Frames : bufDescTable[f].valid => bufDescTable[f].refbit

\* A step of a readPage or allocPage call past its entry evicts nothing: the
\* scan changes no descriptor and no entry, issues no File call, does not
\* throw, and returns only a frame that was invalid; the rest of the call
\* only fills that frame.
NothingEvicted ==
  /\ Scanning =>
       /\ bufDescTable' = bufDescTable
       /\ hashTable' = hashTable
       /\ fileCalls' = fileCalls
       /\ pc' # "idle"
       /\ pc' # "allocBuf" =>
            (~bufDescTable[clockHand'].valid /\ frameNo' = clockHand')
  /\ pc \in {"readPage_141", "allocPage_177"} =>
       /\ hashTable \subseteq hashTable'
       /\ \A f \in Frames :
            bufDescTable[f].valid => bufDescTable'[f] = bufDescTable[f]

--------------------------------------------------------------------------
\* C20. disposePage(file, p) on a resident page succeeds whatever the
\* frame's pinCnt and dirty bit: no error, no File.writePage, the frame is
\* emptied and its pinCnt reset to 0; an unPinPage(file, p, _) that follows
\* is a no-op.
C20_DisposeDropsPins ==
  [][ /\ (Idle /\ Returns("disposePage")
               /\ HashHas(hashTable, last'.file, last'.pageNo)) =>
           LET f == lookup(hashTable, last'.file, last'.pageNo) IN
           /\ last'.result = "ok"
           /\ fileCalls' = << FileCall("deletePage", last'.file, last'.pageNo) >>
           /\ ~bufDescTable'[f].valid
           /\ bufDescTable'[f].pinCnt = 0
           /\ ~bufDescTable'[f].dirty
           /\ ~HashHas(hashTable', last'.file, last'.pageNo)
      /\ (Idle /\ last.op = "disposePage" /\ Returns("unPinPage")
               /\ last'.file = last.file /\ last'.pageNo = last.pageNo) =>
           /\ last'.result = "ok"
           /\ last'.frame = NoFrame
           /\ bufDescTable' = bufDescTable
           /\ hashTable' = hashTable
    ]_vars

\* A page with one pin and unwritten changes was disposed of.
C20_Witness ==
  /\ Idle
  /\ last.op = "disposePage"
  /\ last.result = "ok"
  /\ last.hit
  /\ last.pinBefore = 1
  /\ last.dirtyBefore
  /\ Len(fileCalls) = 1
  /\ bufDescTable[last.frame].pinCnt = 0

====
